---- MODULE Spec2Model ----
(***************************************************************************)
(* Model of scraper.py (F1 driver crawler): the link collector             *)
(* collect_driver_links, the orchestrator run_crawler with its output      *)
(* file, and the pure text functions clean and parse_titles.               *)
(*                                                                         *)
(* Text is modelled as a sequence of one-character strings.  A few fixed   *)
(* markers that the code only ever treats as a unit ("/wiki/", "<title>",  *)
(* the URL origin) are single tokens of such a sequence.                   *)
(***************************************************************************)
EXTENDS Integers, Sequences, FiniteSets, TLC

\* ------------------------------------------------------------------------
\* Bounds of the model
\* ------------------------------------------------------------------------
MaxTarget == 2      \* target argument of run_crawler ranges over 0..MaxTarget
MaxPieces == 3      \* a text given to clean is made of at most MaxPieces pieces
MaxHrefs == 3       \* an aggregator page holds at most MaxHrefs href values, and
                    \* the pages hold at most MaxHrefs link matches in all

\* ------------------------------------------------------------------------
\* Characters
\* ------------------------------------------------------------------------
UpperChars == <<"A","B","C","D","E","F","G","H","I","J","K","L","M",
                "N","O","P","Q","R","S","T","U","V","W","X","Y","Z">>
LowerChars == <<"a","b","c","d","e","f","g","h","i","j","k","l","m",
                "n","o","p","q","r","s","t","u","v","w","x","y","z">>

IsUpper(c) == \E k \in 1..26 : UpperChars[k] = c
IsLower(c) == \E k \in 1..26 : LowerChars[k] = c

\* str.lower() on one character (re.IGNORECASE compares modulo case)
LowerChar(c) ==
    IF IsUpper(c) THEN LowerChars[CHOOSE k \in 1..26 : UpperChars[k] = c] ELSE c

LowerSeq(s) == [k \in 1..Len(s) |-> LowerChar(s[k])]

\* the substring w occurs in s
Contains(s, w) ==
    \E k \in 1..(Len(s) - Len(w) + 1) : SubSeq(s, k, k + Len(w) - 1) = w

ContainsAny(s, ws) == \E w \in ws : Contains(s, w)

\* ------------------------------------------------------------------------
\* SKIP: the exclusion vocabulary (scraper.py 307-313), lower-cased
\* ------------------------------------------------------------------------
SKIP_WORDS == {
      <<"w","i","k","i","p","e","d","i","a">>,
      <<"c","a","t","e","g","o","r","y">>,
      <<"f","i","l","e">>,
      <<"t","e","m","p","l","a","t","e">>,
      <<"h","e","l","p">>,
      <<"s","p","e","c","i","a","l">>,
      <<"p","o","r","t","a","l">>,
      <<"t","a","l","k">>,
      <<"u","s","e","r">>,
      <<"m","a","i","n","_","p","a","g","e">>,
      <<"l","i","s","t","_","o","f">>,
      <<"h","i","s","t","o","r","y","_","o","f">>,
      <<"s","e","a","s","o","n">>,
      <<"g","r","a","n","d","_","p","r","i","x","_","o","f">>,
      <<"c","h","a","m","p","i","o","n","s","h","i","p">>,
      <<"c","i","r","c","u","i","t">>,
      <<"c","o","n","s","t","r","u","c","t","o","r","s">>,
      <<"t","e","a","m","_">>,
      <<"e","n","g","i","n","e">>,
      <<"l","i","b","e","r","t","y">>,
      <<"f","o","r","m","u","l","a","_","o","n","e">>,
      <<"e","a","s","t">>,
      <<"w","e","s","t">>,
      <<"n","o","r","t","h">>,
      <<"s","o","u","t","h">>
    }

\* SKIP.search(path) as it would be without re.IGNORECASE
SKIP_search_case_sensitive(path) == ContainsAny(path, SKIP_WORDS)

\* SKIP.search(path): some word of the vocabulary occurs in path, ignoring case
SKIP_search(path) == ContainsAny(LowerSeq(path), SKIP_WORDS)

\* ------------------------------------------------------------------------
\* RE_DRIVER_LINK (scraper.py 40-43)
\* An aggregator page is modelled as the sequence of the values of its
\* href="..." attributes, in document order.  The pattern ends with the
\* closing quote, so it matches an attribute exactly when the whole value
\* is "/wiki/" followed by 2 to 4 name tokens joined by "_".
\* ------------------------------------------------------------------------
WIKI == "/wiki/"

RECURSIVE SplitOn(_, _)
\* s.split(sep) for a one-character separator
SplitOn(s, sep) ==
    IF \A k \in 1..Len(s) : s[k] # sep
    THEN <<s>>
    ELSE LET p == CHOOSE k \in 1..Len(s) :
                      /\ s[k] = sep
                      /\ \A j \in 1..(k - 1) : s[j] # sep
         IN  <<SubSeq(s, 1, p - 1)>> \o SplitOn(SubSeq(s, p + 1, Len(s)), sep)

\* [A-Z][a-z'\-]+   (the accented letters of the class are outside the alphabet)
IsNameToken(t) ==
    /\ Len(t) >= 2
    /\ IsUpper(t[1])
    /\ \A k \in 2..Len(t) : IsLower(t[k]) \/ t[k] \in {"'", "-"}

RE_DRIVER_LINK_match(href) ==
    /\ Len(href) >= 2
    /\ href[1] = WIKI
    /\ LET toks == SplitOn(Tail(href), "_")
       IN  /\ Len(toks) \in 2..4
           /\ \A k \in 1..Len(toks) : IsNameToken(toks[k])

\* RE_DRIVER_LINK.finditer(html): group(1) of every match, in document order
RE_DRIVER_LINK_finditer(html) == SelectSeq(html, RE_DRIVER_LINK_match)

\* ------------------------------------------------------------------------
\* RE_PAGE_TITLE (scraper.py 46-49) and the name of a subject page
\* A subject page is a sequence of characters in which the tag "<title>"
\* is one token.
\* ------------------------------------------------------------------------
TITLE_TAG == "<title>"

IsSpace(c) == c = " "
IsTitleSep(c) == c \in {"-", "|"}
\* [a-zA-Z'\-\. ]  (the accented range is outside the alphabet)
IsTitleChar(c) == IsUpper(c) \/ IsLower(c) \/ c \in {"'", "-", ".", " "}

\* index of the first non-space character of s at or after position p
SkipSpaces(s, p) ==
    CHOOSE q \in p..(Len(s) + 1) :
        /\ \A j \in p..(q - 1) : IsSpace(s[j])
        /\ q = Len(s) + 1 \/ ~IsSpace(s[q])

\* \s*[-|] matches at position q
SepAt(s, q) ==
    LET r == SkipSpaces(s, q) IN r <= Len(s) /\ IsTitleSep(s[r])

\* The lengths k >= 1 of the lazy group body for which the whole pattern
\* matches with "<title>" at position t: first character at p, body p+1..p+k.
TitleBodyLens(s, t) ==
    LET p == SkipSpaces(s, t + 1)
    IN  IF p > Len(s) \/ ~IsUpper(s[p])
        THEN {}
        ELSE {k \in 1..(Len(s) - p) :
                 /\ \A j \in (p + 1)..(p + k) : IsTitleChar(s[j])
                 /\ SepAt(s, p + k + 1)}

\* str.strip()
RECURSIVE Strip(_)
Strip(s) ==
    IF s = <<>> THEN s
    ELSE IF IsSpace(s[1]) THEN Strip(Tail(s))
    ELSE IF IsSpace(s[Len(s)]) THEN Strip(SubSeq(s, 1, Len(s) - 1))
    ELSE s

\* positions of "<title>" at which RE_PAGE_TITLE matches
TitleMatchPositions(s) ==
    {t \in 1..Len(s) : s[t] = TITLE_TAG /\ TitleBodyLens(s, t) # {}}

\* RE_PAGE_TITLE.search(html).group(1): leftmost match, lazy (shortest) body
RE_PAGE_TITLE_group1(s) ==
    LET t == CHOOSE x \in TitleMatchPositions(s) :
                 \A y \in TitleMatchPositions(s) : x <= y
        p == SkipSpaces(s, t + 1)
        k == CHOOSE x \in TitleBodyLens(s, t) :
                 \A y \in TitleBodyLens(s, t) : x <= y
    IN  SubSeq(s, p, p + k)

\* url.split("/wiki/")[-1]
AfterLastWiki(url) ==
    IF \A k \in 1..Len(url) : url[k] # WIKI
    THEN url
    ELSE LET p == CHOOSE k \in 1..Len(url) :
                      /\ url[k] = WIKI
                      /\ \A j \in (k + 1)..Len(url) : url[j] # WIKI
         IN  SubSeq(url, p + 1, Len(url))

\* s.replace("_", " ")
UnderscoresToSpaces(s) == [k \in 1..Len(s) |-> IF s[k] = "_" THEN " " ELSE s[k]]

\* full_name of parse_driver_page (scraper.py 262-263)
full_name(url, html) ==
    IF TitleMatchPositions(html) # {}
    THEN Strip(RE_PAGE_TITLE_group1(html))
    ELSE UnderscoresToSpaces(AfterLastWiki(url))

\* the empty dict {}
EmptyDict == [k \in {} |-> <<>>]

\* parse_driver_page(url) given the text fetch(url) returned; of the record
\* only the fields the crawl itself reads or that identify it are kept
parse_driver_page(url, html) ==
    IF html = <<>>
    THEN EmptyDict
    ELSE [name |-> full_name(url, html), wiki_url |-> url]

\* ------------------------------------------------------------------------
\* fetch (scraper.py 23-30): a response either raises (timeout, connection,
\* status or charset error) or carries a body; every exception becomes ""
\* ------------------------------------------------------------------------
fetch(resp) == IF resp.raised THEN <<>> ELSE resp.body

\* ------------------------------------------------------------------------
\* clean (scraper.py 120-127): six re.sub passes, whitespace collapse, strip
\* ------------------------------------------------------------------------
IsDigit(c) == c \in {"0","1","2","3","4","5","6","7","8","9"}

\* the literal w stands in s at position k
StartsWith(s, k, w) ==
    /\ k + Len(w) - 1 <= Len(s)
    /\ \A j \in 1..Len(w) : s[k + j - 1] = w[j]

\* index of the first character at or after p that is c, Len(s)+1 if none
FirstAt(s, p, c) ==
    CHOOSE q \in p..(Len(s) + 1) :
        /\ \A j \in p..(q - 1) : s[j] # c
        /\ q = Len(s) + 1 \/ s[q] = c

\* index after the run of digits that starts at p
DigitsEnd(s, p) ==
    CHOOSE q \in p..(Len(s) + 1) :
        /\ \A j \in p..(q - 1) : IsDigit(s[j])
        /\ q = Len(s) + 1 \/ ~IsDigit(s[q])

AMP == <<"&","a","m","p",";">>
NBSP == <<"&","n","b","s","p",";">>

\* Where the match of a pass's pattern that starts at k ends; 0 if the
\* pattern does not match at k.
\*   tag       <[^>]+>
\*   amp       &amp;
\*   nbsp      &nbsp;
\*   nument    &#\d+;
\*   template  \{\{[^}]*\}\}
\*   link      \[\[([^\]|]*\|)?([^\]]*)\]\]
\*   space     \s+
MatchEnd(pass, s, k) ==
    CASE pass = "tag" ->
           IF s[k] = "<" /\ k + 1 <= Len(s) /\ s[k + 1] # ">"
              /\ FirstAt(s, k + 2, ">") <= Len(s)
           THEN FirstAt(s, k + 2, ">") ELSE 0
      [] pass = "amp" -> IF StartsWith(s, k, AMP) THEN k + Len(AMP) - 1 ELSE 0
      [] pass = "nbsp" -> IF StartsWith(s, k, NBSP) THEN k + Len(NBSP) - 1 ELSE 0
      [] pass = "nument" ->
           IF StartsWith(s, k, <<"&","#">>)
           THEN LET q == DigitsEnd(s, k + 2)
                IN  IF q > k + 2 /\ q <= Len(s) /\ s[q] = ";" THEN q ELSE 0
           ELSE 0
      [] pass = "template" ->
           IF StartsWith(s, k, <<"{","{">>)
           THEN LET q == FirstAt(s, k + 2, "}")
                IN  IF StartsWith(s, q, <<"}","}">>) THEN q + 1 ELSE 0
           ELSE 0
      [] pass = "link" ->
           IF StartsWith(s, k, <<"[","[">>)
           THEN LET q == FirstAt(s, k + 2, "]")
                IN  IF StartsWith(s, q, <<"]","]">>) THEN q + 1 ELSE 0
           ELSE 0
      [] pass = "space" ->
           IF IsSpace(s[k])
           THEN (CHOOSE q \in k..(Len(s) + 1) :
                    /\ \A j \in k..(q - 1) : IsSpace(s[j])
                    /\ q = Len(s) + 1 \/ ~IsSpace(s[q])) - 1
           ELSE 0

\* What a pass puts in place of its match s[k..e]
Replacement(pass, s, k, e) ==
    CASE pass = "tag" -> <<" ">>
      [] pass = "amp" -> <<"&">>
      [] pass = "nbsp" -> <<" ">>
      [] pass = "nument" -> <<>>
      [] pass = "template" -> <<>>
      [] pass = "link" ->
           \* group 2: what follows the first "|" of the content, or all of it
           LET bar == FirstAt(s, k + 2, "|")
           IN  IF bar <= e - 2 THEN SubSeq(s, bar + 1, e - 2) ELSE SubSeq(s, k + 2, e - 2)
      [] pass = "space" -> <<" ">>

RECURSIVE SubFrom(_, _, _)
\* re.sub of one pass on s from position k on: leftmost matches, not overlapping
SubFrom(pass, s, k) ==
    IF k > Len(s) THEN <<>>
    ELSE LET e == MatchEnd(pass, s, k)
         IN  IF e > 0
             THEN Replacement(pass, s, k, e) \o SubFrom(pass, s, e + 1)
             ELSE <<s[k]>> \o SubFrom(pass, s, k + 1)

Sub(pass, s) == SubFrom(pass, s, 1)

clean(txt) ==
    Strip(Sub("space", Sub("link", Sub("template", Sub("nument",
          Sub("nbsp", Sub("amp", Sub("tag", txt))))))))

\* ------------------------------------------------------------------------
\* RE_TITLES and parse_titles (scraper.py 82-90, 212-222)
\* ------------------------------------------------------------------------
\* the two characters of the pattern outside ASCII, each one token
TIMES == "U+00D7"
RSQUO == "U+2019"

\* the lower-case literal w stands in s at position k, ignoring case
StartsWithCI(s, k, w) ==
    /\ k + Len(w) - 1 <= Len(s)
    /\ \A j \in 1..Len(w) : LowerChar(s[k + j - 1]) = w[j]

\* word_map: the number words, each at the index that is its value
NumberWords == <<
    <<"o","n","e">>, <<"t","w","o">>, <<"t","h","r","e","e">>, <<"f","o","u","r">>, <<"f","i","v","e">>,
    <<"s","i","x">>, <<"s","e","v","e","n">>, <<"e","i","g","h","t">>, <<"n","i","n","e">>, <<"t","e","n">> >>

\* World\s+(?:Drivers['RSQUO]?\s+)?Champio  matches at position k
CoreAt(s, k) ==
    /\ StartsWithCI(s, k, <<"w","o","r","l","d">>)
    /\ LET a == k + 5
           b == SkipSpaces(s, a)
       IN  /\ b > a
           /\ \/ /\ StartsWithCI(s, b, <<"d","r","i","v","e","r","s">>)
                 /\ \E c \in {b + 7, b + 8} :
                      /\ c = b + 8 => (c - 1 <= Len(s) /\ s[c - 1] \in {"'", RSQUO})
                      /\ SkipSpaces(s, c) > c
                      /\ StartsWithCI(s, SkipSpaces(s, c), <<"c","h","a","m","p","i","o">>)
              \/ StartsWithCI(s, b, <<"c","h","a","m","p","i","o">>)

\* (?P<num>\d+)[TIMESxX\-\s]?  then the core, from position k
NumAt(s, k) ==
    /\ IsDigit(s[k])
    /\ LET q == DigitsEnd(s, k)
       IN  \/ /\ q <= Len(s)
              /\ LowerChar(s[q]) \in {TIMES, "x", "-", " "}
              /\ CoreAt(s, q + 1)
           \/ CoreAt(s, q)

\* (?P<word>one|...|ten)[\s\-]?(?:time[\s\-])?  a space, then the core
WordAt(s, k, n) ==
    /\ StartsWithCI(s, k, NumberWords[n])
    /\ LET a == k + Len(NumberWords[n])
       IN  \E sep \in {0, 1}, tm \in {0, 5} :
             LET b == a + sep
                 c == b + tm
             IN  /\ sep = 1 => (a <= Len(s) /\ s[a] \in {" ", "-"})
                 /\ tm = 5 => /\ StartsWithCI(s, b, <<"t","i","m","e">>)
                              /\ b + 4 <= Len(s)
                              /\ s[b + 4] \in {" ", "-"}
                 /\ c <= Len(s)
                 /\ s[c] = " "
                 /\ CoreAt(s, c + 1)

\* RE_TITLES matches with its start at position k
TitlesMatchAt(s, k) ==
    \/ NumAt(s, k)
    \/ \E n \in 1..Len(NumberWords) : WordAt(s, k, n)
    \/ CoreAt(s, k)

\* str(n) for 1 <= n <= 10
Str(n) == IF n = 10 THEN <<"1","0">>
          ELSE <<(<<"1","2","3","4","5","6","7","8","9">>)[n]>>

\* parse_titles with the groups of the leftmost match; the alternatives of
\* the pattern are tried in the order num, word, no prefix
parse_titles(txt) ==
    LET starts == {k \in 1..Len(txt) : TitlesMatchAt(txt, k)}
    IN  IF starts = {} THEN <<"0">>
        ELSE LET k == CHOOSE x \in starts : \A y \in starts : x <= y
             IN  IF NumAt(txt, k)
                 THEN SubSeq(txt, k, DigitsEnd(txt, k) - 1)
                 ELSE IF \E n \in 1..Len(NumberWords) : WordAt(txt, k, n)
                 THEN Str(CHOOSE n \in 1..Len(NumberWords) : WordAt(txt, k, n))
                 ELSE <<"1">>

RECURSIVE Flatten(_)
\* the concatenation of a sequence of sequences
Flatten(ss) == IF ss = <<>> THEN <<>> ELSE Head(ss) \o Flatten(Tail(ss))

\* ------------------------------------------------------------------------
\* Inputs: what the network can answer, the target, the previous output file
\* ------------------------------------------------------------------------
BASE == "https://en.wikipedia.org"

\* LIST_PAGES (scraper.py 295-299): three aggregator pages, scanned in order
NumListPages == 3

\* href values an aggregator page may hold: two driver pages, a page whose
\* path is name-shaped but in the exclusion vocabulary, a one-token path
HrefPool == {
    <<WIKI, "A","l","_","P","e","a","s","e">>,
    <<WIKI, "B","o","b","_","S","a","i","d">>,
    <<WIKI, "T","e","a","m","_","L","o","t","u","s">>,
    <<WIKI, "M","o","n","a","c","o">>
  }

\* the aggregator pages of at most n href values
ListPagePool(n) == UNION {[1..k -> HrefPool] : k \in 0..n}

\* bodies a subject page may have: empty, no title, titles giving names of
\* 3, 4 and 8 characters
SubjectPagePool == {
    <<>>,
    <<"<p>">>,
    <<TITLE_TAG, "A","l","f"," ","|">>,
    <<TITLE_TAG, "J","e","a","n","-","L","u","c"," ","|">>,
    <<TITLE_TAG, " ","B","o","b"," ","S","a","i","d"," ","-">>
  }

Responses(bodies) ==
    {[raised |-> TRUE, body |-> <<>>]} \cup {[raised |-> FALSE, body |-> b] : b \in bodies}

\* the output file: a JSON array of which items has been written and which
\* is complete once the closing bracket is on disk; the file a crawl finds
\* is the complete output of an earlier crawl
OldRecord == [name |-> <<"N","i","k","i">>,
              wiki_url |-> <<BASE, WIKI, "N","i","k","i","_","L">>]
PrevFile == [exists |-> TRUE, items |-> <<OldRecord>>, complete |-> TRUE]

NotReturned == [done |-> FALSE, value |-> <<>>]

\* ------------------------------------------------------------------------
\* State
\* ------------------------------------------------------------------------
VARIABLES
    pc,            \* position in run_crawler / collect_driver_links
    target,        \* argument of run_crawler
    lp,            \* index into LIST_PAGES of the outer loop
    matches,       \* what RE_DRIVER_LINK.finditer(html) has still to yield
    seen, links,   \* locals of collect_driver_links
    urls,          \* result of collect_driver_links
    i,             \* index of the per-URL loop (enumerate from 1)
    d,             \* result of parse_driver_page in this iteration
    drivers,       \* in-memory result sequence
    file,          \* the output file on disk
    returned,      \* value returned by run_crawler
    prevFile,      \* history: the output file as the crawl found it
    yielded,       \* history of the running collect_driver_links call: the
                   \* link matches of each aggregator page yielded so far
    fetchLog,      \* history: url and text of every subject-page fetch
    lastEvent,     \* history: "fetch" or "sleep", whichever came last
    abortedAt,     \* history: pc at which the crawl was interrupted
    text,          \* input of a pure text function
    once, twice    \* its result, and the result of applying it to that

\* locals of collect_driver_links and the history of its call
collectVars == <<lp, matches, seen, links, yielded>>
\* locals of the per-URL loop of run_crawler
loopVars == <<urls, i, d, drivers, fetchLog>>
\* the arguments, the file as found, the text functions' variables
fixedVars == <<target, prevFile, abortedAt, text, once, twice>>

vars == <<pc, target, lp, matches, seen, links, urls, i, d, drivers, file,
          returned, prevFile, yielded, fetchLog, lastEvent, abortedAt,
          text, once, twice>>

\* the crawler before run_crawler is called
CrawlerIdle ==
    /\ prevFile = PrevFile
    /\ file = prevFile
    /\ lp = 1
    /\ matches = <<>>
    /\ seen = {}
    /\ links = <<>>
    /\ urls = <<>>
    /\ i = 1
    /\ d = EmptyDict
    /\ drivers = <<>>
    /\ returned = NotReturned
    /\ yielded = <<>>
    /\ fetchLog = <<>>
    /\ lastEvent = "none"
    /\ abortedAt = "none"

Init ==
    /\ pc = "Idle"
    /\ target \in 0..MaxTarget
    /\ CrawlerIdle
    /\ text = <<>>
    /\ once = <<>>
    /\ twice = <<>>

\* ------------------------------------------------------------------------
\* collect_driver_links (scraper.py 316-336)
\* ------------------------------------------------------------------------
\* the loop guard with > in place of >=
TargetReached_strict(ls, t) == Len(ls) > t

\* len(links) >= target
TargetReached(ls, t) == Len(ls) >= t

\* s[:n] for n >= 0
Take(s, n) == SubSeq(s, 1, IF n < Len(s) THEN n ELSE Len(s))

\* run_crawler is called: os.makedirs, then collect_driver_links starts
Start ==
    /\ pc = "Idle"
    /\ pc' = "ListLoop"
    /\ seen' = {}
    /\ links' = <<>>
    /\ lp' = 1
    /\ UNCHANGED <<matches, yielded, loopVars, file, returned, lastEvent, fixedVars>>

\* for lp in LIST_PAGES: if len(links) >= target: break
ListBreak ==
    /\ pc = "ListLoop"
    /\ lp <= NumListPages
    /\ TargetReached(links, target)
    /\ pc' = "Return"
    /\ UNCHANGED <<collectVars, loopVars, file, returned, lastEvent, fixedVars>>

\* the outer loop has run through LIST_PAGES
ListExhausted ==
    /\ pc = "ListLoop"
    /\ lp > NumListPages
    /\ pc' = "Return"
    /\ UNCHANGED <<collectVars, loopVars, file, returned, lastEvent, fixedVars>>

\* html = fetch(lp); the inner loop starts on RE_DRIVER_LINK.finditer(html)
FetchListPage ==
    /\ pc = "ListLoop"
    /\ lp <= NumListPages
    /\ ~TargetReached(links, target)
    /\ \E resp \in Responses(ListPagePool(MaxHrefs)) :
         LET html == fetch(resp) IN
           /\ Len(Flatten(yielded)) + Len(RE_DRIVER_LINK_finditer(html)) <= MaxHrefs
           /\ matches' = RE_DRIVER_LINK_finditer(html)
           /\ yielded' = Append(yielded, RE_DRIVER_LINK_finditer(html))
    /\ lastEvent' = "fetch"
    /\ pc' = "Scan"
    /\ UNCHANGED <<lp, seen, links, loopVars, file, returned, fixedVars>>

\* one iteration of the inner loop on the next match
ScanMatch ==
    /\ pc = "Scan"
    /\ matches # <<>>
    /\ LET path == Head(matches)
           url == <<BASE>> \o path
       IN  /\ matches' = Tail(matches)
           /\ IF SKIP_search(path)
              THEN \* continue
                   /\ UNCHANGED <<seen, links, lp>>
                   /\ pc' = "Scan"
              ELSE /\ seen' = seen \cup {url}
                   /\ links' = IF url \notin seen THEN Append(links, url) ELSE links
                   /\ IF TargetReached(links', target)
                      THEN \* break: the outer loop takes its next page
                           /\ lp' = lp + 1
                           /\ pc' = "ListLoop"
                      ELSE /\ lp' = lp
                           /\ pc' = "Scan"
    /\ UNCHANGED <<yielded, loopVars, file, returned, lastEvent, fixedVars>>

\* the matches of this page are exhausted
ScanEnd ==
    /\ pc = "Scan"
    /\ matches = <<>>
    /\ lp' = lp + 1
    /\ pc' = "ListLoop"
    /\ UNCHANGED <<matches, seen, links, yielded, loopVars, file, returned,
                   lastEvent, fixedVars>>

\* return links[:target]: the locals of collect_driver_links are gone;
\* run_crawler goes on with drivers = []
Return ==
    /\ pc = "Return"
    /\ urls' = Take(links, target)
    /\ drivers' = <<>>
    /\ i' = 1
    /\ pc' = "CrawlLoop"
    /\ lp' = 1
    /\ matches' = <<>>
    /\ seen' = {}
    /\ links' = <<>>
    /\ yielded' = <<>>
    /\ UNCHANGED <<d, fetchLog, file, returned, lastEvent, fixedVars>>

\* ------------------------------------------------------------------------
\* run_crawler (scraper.py 343-362)
\* ------------------------------------------------------------------------
\* the record test with >= 3 in place of > 3
Retain_3(rec) ==
    /\ DOMAIN rec # {}
    /\ rec.name # <<>>
    /\ Len(rec.name) >= 3

\* the record test rejecting names of 4 characters
Retain_5(rec) ==
    /\ DOMAIN rec # {}
    /\ rec.name # <<>>
    /\ Len(rec.name) > 4

\* d and d.get("name") and len(d["name"]) > 3
Retain(rec) ==
    /\ DOMAIN rec # {}
    /\ rec.name # <<>>
    /\ Len(rec.name) > 3

\* d = parse_driver_page(url) with a fetch that lets its exception escape:
\* run_crawler ends there with the exception
FetchSubject_uncaught ==
    /\ pc = "CrawlLoop"
    /\ i <= Len(urls)
    /\ \E resp \in Responses(SubjectPagePool) :
         IF resp.raised
         THEN /\ pc' = "Raised"
              /\ UNCHANGED <<d, fetchLog>>
         ELSE /\ d' = parse_driver_page(urls[i], resp.body)
              /\ fetchLog' = Append(fetchLog, [url |-> urls[i], html |-> resp.body])
              /\ pc' = "Check"
    /\ lastEvent' = "fetch"
    /\ UNCHANGED <<collectVars, urls, i, drivers, file, returned, fixedVars>>

\* d = parse_driver_page(url)
FetchSubject ==
    /\ pc = "CrawlLoop"
    /\ i <= Len(urls)
    /\ \E resp \in Responses(SubjectPagePool) :
         LET html == fetch(resp) IN
           /\ d' = parse_driver_page(urls[i], html)
           /\ fetchLog' = Append(fetchLog, [url |-> urls[i], html |-> html])
    /\ lastEvent' = "fetch"
    /\ pc' = "Check"
    /\ UNCHANGED <<collectVars, urls, i, drivers, file, returned, fixedVars>>

\* drivers.append(d) followed by a save of the results so far
AppendDriver_saving ==
    /\ pc = "Check"
    /\ Retain(d)
    /\ drivers' = Append(drivers, d)
    /\ file' = [exists |-> TRUE, items |-> drivers', complete |-> TRUE]
    /\ pc' = "Sleep"
    /\ UNCHANGED <<collectVars, urls, i, d, fetchLog, returned, lastEvent, fixedVars>>

\* drivers.append(d)
AppendDriver ==
    /\ pc = "Check"
    /\ Retain(d)
    /\ drivers' = Append(drivers, d)
    /\ pc' = "Sleep"
    /\ UNCHANGED <<collectVars, urls, i, d, fetchLog, file, returned, lastEvent,
                   fixedVars>>

\* the record is not retained
DropDriver ==
    /\ pc = "Check"
    /\ ~Retain(d)
    /\ pc' = "Sleep"
    /\ UNCHANGED <<collectVars, loopVars, file, returned, lastEvent, fixedVars>>

\* time.sleep(0.5), then the next URL
Sleep ==
    /\ pc = "Sleep"
    /\ lastEvent' = "sleep"
    /\ i' = i + 1
    /\ pc' = "CrawlLoop"
    /\ UNCHANGED <<collectVars, urls, d, drivers, fetchLog, file, returned, fixedVars>>

\* open(out, "w"): the file is created or truncated
OpenOut ==
    /\ pc = "CrawlLoop"
    /\ i > Len(urls)
    /\ file' = [exists |-> TRUE, items |-> <<>>, complete |-> FALSE]
    /\ pc' = "Dump"
    /\ UNCHANGED <<collectVars, loopVars, returned, lastEvent, fixedVars>>

\* json.dump writes the next record
DumpItem ==
    /\ pc = "Dump"
    /\ Len(file.items) < Len(drivers)
    /\ file' = [file EXCEPT !.items = Append(@, drivers[Len(@) + 1])]
    /\ UNCHANGED <<pc, collectVars, loopVars, returned, lastEvent, fixedVars>>

\* json.dump writes the closing bracket and the with block closes the file
CloseOut ==
    /\ pc = "Dump"
    /\ Len(file.items) = Len(drivers)
    /\ file' = [file EXCEPT !.complete = TRUE]
    /\ pc' = "Saved"
    /\ UNCHANGED <<collectVars, loopVars, returned, lastEvent, fixedVars>>

\* return drivers
ReturnDrivers ==
    /\ pc = "Saved"
    /\ returned' = [done |-> TRUE, value |-> drivers]
    /\ pc' = "Done"
    /\ UNCHANGED <<collectVars, loopVars, file, lastEvent, fixedVars>>

Running == {"ListLoop", "Scan", "Return", "CrawlLoop", "Check", "Sleep", "Dump", "Saved"}

\* the process is interrupted (KeyboardInterrupt, kill, power loss): what it
\* held in memory is gone, the file stays as it was on disk
Interrupt ==
    /\ pc \in Running
    /\ abortedAt' = pc
    /\ pc' = "Aborted"
    /\ lp' = 1
    /\ matches' = <<>>
    /\ seen' = {}
    /\ links' = <<>>
    /\ yielded' = <<>>
    /\ urls' = <<>>
    /\ i' = 1
    /\ d' = EmptyDict
    /\ drivers' = <<>>
    /\ UNCHANGED <<fetchLog, file, returned, lastEvent, target, prevFile, text,
                   once, twice>>

NextRun ==
    \/ Start
    \/ ListBreak
    \/ ListExhausted
    \/ FetchListPage
    \/ ScanMatch
    \/ ScanEnd
    \/ Return
    \/ FetchSubject
    \/ AppendDriver
    \/ DropDriver
    \/ Sleep
    \/ OpenOut
    \/ DumpItem
    \/ CloseOut
    \/ ReturnDrivers

Next == NextRun \/ Interrupt

Spec == Init /\ [][Next]_vars

\* the crawl left to run: every step the interpreter can take is taken
LiveSpec == Init /\ [][NextRun]_vars /\ WF_vars(NextRun)

\* ------------------------------------------------------------------------
\* Properties of collect_driver_links
\* ------------------------------------------------------------------------
InVocabulary(path) ==
    \E w \in SKIP_WORDS :
        \E k \in 1..Len(path) :
            /\ k + Len(w) - 1 <= Len(path)
            /\ \A j \in 1..Len(w) : LowerChar(path[k + j - 1]) = w[j]

\* the paths of s outside the vocabulary, each at its first occurrence only
FirstSeenOrder(s) ==
    LET keep == {k \in 1..Len(s) :
                    /\ ~InVocabulary(s[k])
                    /\ \A j \in 1..(k - 1) : s[j] # s[k]}
        nth(n) == CHOOSE k \in keep : Cardinality({j \in keep : j <= k}) = n
    IN  [n \in 1..Cardinality(keep) |-> <<BASE>> \o s[nth(n)]]

NoDuplicates(s) == \A j, k \in 1..Len(s) : j # k => s[j] # s[k]

\* C1: the sequence collect_driver_links returns holds no URL twice, holds no
\* URL whose path is in the exclusion vocabulary, and lists the URLs in the
\* order of their first occurrence in the aggregator pages as scanned.
C1_DedupOrderedFiltered ==
    /\ [](NoDuplicates(urls) /\ \A k \in 1..Len(urls) : ~InVocabulary(Tail(urls[k])))
    /\ [][pc = "Return" /\ pc' = "CrawlLoop"
            => LET ref == FirstSeenOrder(Flatten(yielded))
               IN  urls' = IF target < Len(ref) THEN SubSeq(ref, 1, target) ELSE ref]_vars

\* number of link matches the inner loop has taken so far
Scans == Len(Flatten(yielded)) - Len(matches)

\* collect_driver_links is about to return two URLs collected from the
\* third page, after a duplicate and an excluded path were passed over
C1_Witness ==
    /\ pc = "Return"
    /\ Len(links) = 2
    /\ Len(yielded) = 3
    /\ Scans = 3
    /\ \E k \in 1..Len(Flatten(yielded)) : InVocabulary(Flatten(yielded)[k])

\* C2: collect_driver_links returns at most target URLs, and once
\* len(links) has reached target no aggregator page is yielded and no link
\* match is scanned any more.
C2_CappedNoOverFetch ==
    /\ [](pc \in {"CrawlLoop", "Check", "Sleep", "Dump", "Saved", "Done"}
            => Len(urls) <= target)
    /\ [][Len(links) >= target /\ pc' \in {"ListLoop", "Scan", "Return"}
            => Len(yielded') = Len(yielded) /\ Scans' = Scans]_vars

\* the target was reached by the last match of the first page; the other
\* pages were not yielded
C2_Witness ==
    /\ pc = "Return"
    /\ target = 2
    /\ Len(links) = 2
    /\ Len(yielded) = 1
    /\ Scans = 2
    /\ matches = <<>>

\* ------------------------------------------------------------------------
\* Properties of run_crawler
\* ------------------------------------------------------------------------
RecordsFor(url) == {k \in 1..Len(file.items) : file.items[k].wiki_url = url}

\* C3 as stated: a failed fetch gives no record, and every URL yielded
\* successfully has a record in the persisted output.
C3_EverySuccessfulFetchPersisted ==
    pc = "Done" =>
        /\ Len(fetchLog) = Len(urls)
        /\ \A k \in 1..Len(fetchLog) :
             IF fetchLog[k].html = <<>>
             THEN RecordsFor(fetchLog[k].url) = {}
             ELSE RecordsFor(fetchLog[k].url) # {}

\* C3 amended: a failed fetch gives no record, every URL of the list is
\* visited, and every URL yielded successfully whose extracted name is longer
\* than 3 characters has a record in the persisted output.
C3_FailedFetchSkippedOthersPersisted ==
    pc = "Done" =>
        /\ Len(fetchLog) = Len(urls)
        /\ \A k \in 1..Len(fetchLog) :
             IF fetchLog[k].html = <<>>
             THEN RecordsFor(fetchLog[k].url) = {}
             ELSE Len(full_name(fetchLog[k].url, fetchLog[k].html)) > 3
                      => RecordsFor(fetchLog[k].url) # {}

\* the first URL's fetch failed, the second URL's record was persisted
C3_Witness ==
    /\ pc = "Done"
    /\ Len(fetchLog) = 2
    /\ fetchLog[1].html = <<>>
    /\ fetchLog[2].html # <<>>
    /\ Len(file.items) = 1
    /\ file.items[1].wiki_url = fetchLog[2].url

\* C4: at every point the output file is the unchanged previous file or a
\* complete collection, never an empty or partially written one.
C4_AtomicWrite ==
    \/ file = prevFile
    \/ file.exists /\ file.complete

PrePersist == {"Idle", "ListLoop", "Scan", "Return", "CrawlLoop", "Check", "Sleep"}

\* C5: before the Persisting step the output file is as the crawl found it;
\* a crawl aborted there leaves it so, with no result held or returned.
C5_NoPartialPersist ==
    /\ pc \in PrePersist => file = prevFile
    /\ pc = "Aborted" /\ abortedAt \in PrePersist
           => file = prevFile /\ drivers = <<>> /\ ~returned.done

\* a crawl over an existing output file was aborted after a record had been
\* appended in memory
C5_Witness ==
    /\ pc = "Aborted"
    /\ abortedAt = "Sleep"
    /\ prevFile.exists
    /\ Len(fetchLog) = 1
    /\ fetchLog[1].html # <<>>
    /\ Len(full_name(fetchLog[1].url, fetchLog[1].html)) > 3

\* a step that calls fetch
FetchStep ==
    \/ pc = "ListLoop" /\ pc' = "Scan"
    \/ pc = "CrawlLoop" /\ pc' = "Check"

\* C6: no fetch follows another fetch without the delay in between.
C6_DelayBetweenFetches == [][FetchStep => lastEvent # "fetch"]_vars

\* C7: whatever the fetches answer, run_crawler reaches Done with a complete
\* output file holding the result sequence, which it returns.
C7_AlwaysPersistsAndReturns ==
    <>(/\ pc = "Done"
       /\ file = [exists |-> TRUE, items |-> drivers, complete |-> TRUE]
       /\ returned = [done |-> TRUE, value |-> drivers])

\* no aggregator page gave a link although links were asked for: the crawl
\* is Done with the empty collection written
C7_Witness ==
    /\ pc = "Done"
    /\ target = 2
    /\ urls = <<>>
    /\ lastEvent = "fetch"
    /\ file = [exists |-> TRUE, items |-> <<>>, complete |-> TRUE]
    /\ returned = [done |-> TRUE, value |-> <<>>]

LongName(rec) == rec.name # <<>> /\ Len(rec.name) > 3

\* C8: every record of the result sequence, of the returned value and of the
\* output file has a non-empty name longer than 3 characters.
C8_NamesLongerThan3 ==
    /\ \A k \in 1..Len(drivers) : LongName(drivers[k])
    /\ \A k \in 1..Len(returned.value) : LongName(returned.value[k])
    /\ \A k \in 1..Len(file.items) : LongName(file.items[k])

\* a candidate with a name of 3 characters was dropped and the crawl went on
\* to persist the next URL's record
C8_Witness ==
    /\ pc = "Done"
    /\ Len(fetchLog) = 2
    /\ fetchLog[1].html # <<>>
    /\ Len(full_name(fetchLog[1].url, fetchLog[1].html)) = 3
    /\ Len(file.items) = 1
    /\ file.items[1].wiki_url = fetchLog[2].url

\* ------------------------------------------------------------------------
\* clean applied to a text, then to its own result
\* ------------------------------------------------------------------------
\* pieces of markup a text is made of
CleanPieces == {
    AMP,
    <<"a","m","p",";">>,
    <<"&","#","1">>,
    <<";">>,
    <<"<","b",">">>,
    <<"{","{">>,
    <<"}","}">>,
    <<"[","[">>,
    <<"]","]">>,
    <<"a","|">>,
    <<" ">>
  }

CleanInputs ==
    {Flatten(ps) : ps \in UNION {[1..n -> CleanPieces] : n \in 0..MaxPieces}}

CleanInit ==
    /\ pc = "clean"
    /\ target = 0
    /\ CrawlerIdle
    /\ text \in CleanInputs
    /\ once = <<>>
    /\ twice = <<>>

\* once = clean(text)
CleanOnce ==
    /\ pc = "clean"
    /\ once' = clean(text)
    /\ pc' = "cleaned"
    /\ UNCHANGED <<collectVars, loopVars, file, returned, lastEvent, target,
                   prevFile, abortedAt, text, twice>>

\* twice = clean(once)
CleanTwice ==
    /\ pc = "cleaned"
    /\ twice' = clean(once)
    /\ pc' = "recleaned"
    /\ UNCHANGED <<collectVars, loopVars, file, returned, lastEvent, target,
                   prevFile, abortedAt, text, once>>

CleanNext == CleanOnce \/ CleanTwice

CleanSpec == CleanInit /\ [][CleanNext]_vars

\* C9: clean is idempotent: clean(clean(x)) = clean(x).
C9_CleanIdempotent == pc = "recleaned" => twice = once

\* ------------------------------------------------------------------------
\* parse_titles applied to a text
\* ------------------------------------------------------------------------
SEVEN_TIME_WORLD_CHAMPION == <<"s","e","v","e","n","-","t","i","m","e"," ","W","o","r","l","d"," ","C","h","a","m","p","i","o","n">>
WORLD_CHAMPION == <<"W","o","r","l","d"," ","C","h","a","m","p","i","o","n">>

TitleLeads == {<<>>, <<"a"," ">>}

TitleQualifiers == {
    <<>>,
    <<"s","e","v","e","n","-","t","i","m","e"," ">>,
    <<"s","e","v","e","n"," ">>,
    <<"s","e","v","e","n","-","t","i","m","e"," "," ">>,
    <<"7"," ">>,
    <<"3","x">>,
    <<"3",TIMES," ">>,
    <<"t","w","o"," ","t","i","m","e"," ">>
  }

TitleMarkers == {
    WORLD_CHAMPION,
    <<"W","o","r","l","d"," ","D","r","i","v","e","r","s","'"," ","C","h","a","m","p","i","o","n">>,
    <<"d","r","i","v","e","r">>,
    <<"w","o","r","l","d"," "," ","c","h","a","m","p","i","o","n">>
  }

TitleInputs ==
    {lead \o qual \o marker :
        lead \in TitleLeads, qual \in TitleQualifiers, marker \in TitleMarkers}

TitlesInit ==
    /\ pc = "titles"
    /\ target = 0
    /\ CrawlerIdle
    /\ text \in TitleInputs
    /\ once = <<>>
    /\ twice = <<>>

\* once = parse_titles(text)
ParseTitles ==
    /\ pc = "titles"
    /\ once' = parse_titles(text)
    /\ pc' = "parsed"
    /\ UNCHANGED <<collectVars, loopVars, file, returned, lastEvent, target,
                   prevFile, abortedAt, text, twice>>

TitlesNext == ParseTitles

TitlesSpec == TitlesInit /\ [][TitlesNext]_vars

\* the text has no digit and no number word
NoQualifier(s) ==
    /\ \A k \in 1..Len(s) : ~IsDigit(s[k])
    /\ \A n \in 1..Len(NumberWords) : ~Contains(LowerSeq(s), NumberWords[n])

\* C10: parse_titles gives "7" for a text containing "seven-time World
\* Champion", "0" for a text containing "World Champion" with no digit and no
\* number word, and "N/A" for a text with no champion marker.
C10_TitlesExamples ==
    pc = "parsed" =>
        /\ Contains(text, SEVEN_TIME_WORLD_CHAMPION) => once = <<"7">>
        /\ Contains(text, WORLD_CHAMPION) /\ NoQualifier(text) => once = <<"0">>
        /\ ~Contains(LowerSeq(text), <<"c","h","a","m","p","i","o">>) => once = <<"N","/","A">>

====
